---- MODULE Spec2Model ----
(***************************************************************************)
(* Run-loop controller of the Bernard daemon (src/bernard/core.py).        *)
(*                                                                         *)
(* The main thread executes Bernard.run one statement at a time (pc); the  *)
(* signal handlers run between any two statements.  Durations and clock    *)
(* readings are counted in units of 1/TicksPerSec second so that           *)
(* fractional wait times and int() truncation are represented.             *)
(***************************************************************************)
EXTENDS Integers, Sequences, FiniteSets

(* ------------------------------ bounds --------------------------------- *)

\* clock resolution: units per second
TicksPerSec == 2
\* scheduler steps the model lets the loop start
MaxSteps == 2

(* ------------------------- program constants --------------------------- *)

\* core.py:18, in seconds
RESTART_INTERVAL == 4 * 24 * 60 * 60
\* core.py:86, the status throttle and the long-sleep threshold, in seconds
STATUS_PERIOD == 10

Sec(n) == n * TicksPerSec

\* Names bound in the module namespace of core.py: its imports, its
\* module-level assignments and its classes and functions.
ModuleGlobals ==
    {"logging", "signal", "sys", "time", "Daemon", "StaticWatchdog", "get_os",
     "yaml", "yLoader", "AgentStatus", "style", "get_config_path", "R", "S",
     "Scheduler", "RESTART_INTERVAL", "BERNARD_CONF", "log", "Bernard",
     "BernardStatus", "get_bernard_config"}

Signals == {"SIGTERM", "SIGUSR1", "SIGINT"}

(* --------------------------- environment ------------------------------- *)

\* Readings of time.time() the model distinguishes: the clock's origin, 10 s
\* later and one unit after that; one restart interval after the origin and
\* one unit after that.
ClockValues ==
    {0, Sec(STATUS_PERIOD), Sec(STATUS_PERIOD) + 1,
     Sec(RESTART_INTERVAL), Sec(RESTART_INTERVAL) + 1}

\* Delays until the next check is due that a scheduler step may leave behind:
\* exactly 10 s and a fraction of a second more (shorter waits arise as the
\* clock advances towards the due time).
WaitDurations == {Sec(STATUS_PERIOD), Sec(STATUS_PERIOD) + 1}

\* Outcomes of running one check: <<status, state>>
CheckOutcomes == {<<"OK", "OK">>, <<"TIMEOUT", "WARNING">>}

VARIABLES
    pc,                 \* statement of Bernard.run the main thread is at
    now,                \* time.time()
    handlers,           \* signals whose handler has been installed
    run_forever,        \* self.run_forever
    autorestart,        \* self.autorestart
    bernard_config,     \* local of run(): "unset", "empty" ({}) or "loaded"
    config_path,        \* local of get_bernard_config: "unset" outside the
                        \* call, else "None", or a path to a "missing" or
                        \* to a "readable" file
    f,                  \* local of get_bernard_config: "unset" or what the
                        \* opened file holds
    checks,             \* self.scheduler.checks
    schedule_count,     \* self.scheduler.schedule_count
    next_due,           \* scheduler: when the next check is due
    wait_time,          \* local wait_time of run()
    last_info_update,   \* self.last_info_update (-1: not yet set)
    agent_start,        \* self.agent_start (-1: not yet set)
    restart_interval,   \* self.restart_interval (-1: not yet set)
    persisted,          \* the persisted status snapshot
    wd_extra,           \* argument of StaticWatchdog.reset in this iteration
                        \* (-1: none; 0 for the reset() of __init__)
    sleep_arg,          \* argument of time.sleep in this iteration (-1: none)
    exitStatus,         \* how the process ended ("none" while running)
    status_dict,        \* result of BernardStatus.to_dict (<<>>: not called)
    hist                \* history of the execution, for stating properties

vars == <<pc, now, handlers, run_forever, autorestart, bernard_config,
          config_path, f, checks,
          schedule_count, next_due, wait_time, last_info_update, agent_start,
          restart_interval, persisted, wd_extra, sleep_arg, exitStatus,
          status_dict, hist>>

(* ------------------------- status snapshot ----------------------------- *)

\* check.get_status(): the read-only projection of one check
get_status(check) ==
    [check_name |-> check.check_name, status |-> check.status,
     state |-> check.state, run_count |-> check.run_count]

\* BernardStatus.__init__
BernardStatus(cs, count) ==
    [present |-> TRUE,
     check_stats |-> [i \in DOMAIN cs |-> get_status(cs[i])],
     schedule_count |-> count]

\* no persisted snapshot
NoStatus == [present |-> FALSE, check_stats |-> <<>>, schedule_count |-> 0]

(* ----------------------------- scheduler ------------------------------- *)

\* Scheduler.from_config: the checks named by the configuration
ChecksFromConfig(cfg) ==
    IF cfg = "loaded"
    THEN <<[check_name |-> "A", status |-> "OK", state |-> "NONE", run_count |-> 0]>>
    ELSE <<>>

\* Scheduler.wait_time: the non-negative delay until the next check is due
SchedulerWaitTime == IF next_due > now THEN next_due - now ELSE 0

\* int(x) for a non-negative duration, in clock units
IntOf(w) == (w \div TicksPerSec) * TicksPerSec

(* ------------------------------ initial -------------------------------- *)

Init ==
    /\ pc = "install_sigterm"
    /\ now = 0
    /\ handlers = {}
    /\ run_forever = TRUE
    /\ autorestart \in BOOLEAN
    /\ bernard_config = "unset"
    /\ config_path = "unset"
    /\ f = "unset"
    /\ checks = <<>>
    /\ schedule_count = 0
    /\ next_due = 0
    /\ wait_time = 0
    /\ last_info_update = -1
    /\ agent_start = -1
    /\ restart_interval = -1
    /\ persisted = NoStatus
    /\ wd_extra = 0
    /\ sleep_arg = -1
    /\ exitStatus = "none"
    /\ status_dict = <<>>
    /\ hist = [term |-> FALSE, usr1 |-> FALSE, lastAction |-> "none",
               restartBy |-> "none", removed |-> FALSE,
               startupPersisted |-> FALSE,
               configured |-> FALSE, built |-> FALSE,
               stepsAfterStop |-> 0, iterPersisted |-> FALSE,
               iterUpdated |-> FALSE]

(* --------------------------- signal handlers --------------------------- *)

\* Bernard._do_restart: sys.exit(AgentSupervisor.RESTART_EXIT_STATUS).  The
\* argument is evaluated first; a name that is not bound in the module
\* raises NameError before sys.exit is reached.
DoRestartOutcome ==
    IF "AgentSupervisor" \in ModuleGlobals THEN "restart" ELSE "NameError"

\* Exceptions that an "except Exception" clause catches (SystemExit is not one)
IsException(outcome) == outcome = "NameError"

\* variant: the handler itself removes the persisted snapshot
HandleSigterm_cleansUp(sig) ==
    /\ pc # "done"
    /\ sig \in handlers \cap {"SIGTERM", "SIGINT"}
    /\ run_forever' = FALSE
    /\ persisted' = NoStatus
    /\ hist' = [hist EXCEPT !.term = TRUE]
    /\ UNCHANGED <<pc, now, handlers, autorestart, bernard_config,
                   config_path, f, checks, schedule_count, next_due, wait_time,
                   last_info_update, agent_start, restart_interval, wd_extra,
                   sleep_arg, exitStatus, status_dict>>

\* Bernard._handle_sigterm, installed for SIGTERM and SIGINT
HandleSigterm(sig) ==
    /\ pc # "done"
    /\ sig \in handlers \cap {"SIGTERM", "SIGINT"}
    /\ run_forever' = FALSE
    /\ hist' = [hist EXCEPT !.term = TRUE]
    /\ UNCHANGED <<pc, now, handlers, autorestart, bernard_config, config_path, f, checks,
                   schedule_count, next_due, wait_time, last_info_update,
                   agent_start, restart_interval, persisted, wd_extra,
                   sleep_arg, exitStatus, status_dict>>

\* Bernard._handle_sigusr1: _handle_sigterm, then _do_restart.  What
\* _do_restart raises propagates out of run(), except inside the try block of
\* get_bernard_config, whose "except Exception" returns {} instead.
HandleSigusr1 ==
    /\ pc # "done"
    /\ "SIGUSR1" \in handlers
    /\ run_forever' = FALSE
    /\ hist' = [hist EXCEPT !.usr1 = TRUE, !.restartBy = "signal"]
    /\ IF pc = "cfg_parse" /\ IsException(DoRestartOutcome)
       THEN /\ bernard_config' = "empty"
            /\ config_path' = "unset"
            /\ f' = "unset"
            /\ pc' = "from_config"
            /\ UNCHANGED exitStatus
       ELSE /\ pc' = "done"
            /\ exitStatus' = DoRestartOutcome
            /\ UNCHANGED <<bernard_config, config_path, f>>
    /\ UNCHANGED <<now, handlers, autorestart, checks, schedule_count,
                   next_due, wait_time, last_info_update, agent_start,
                   restart_interval, persisted, wd_extra, sleep_arg, status_dict>>

(* ------------------------------ start-up ------------------------------- *)

\* variant: the handler is not registered
Install_notRegistered(at, sig, next) ==
    /\ pc = at
    /\ pc' = next
    /\ UNCHANGED <<now, handlers, run_forever, autorestart, bernard_config, config_path, f,
                   checks, schedule_count, next_due, wait_time,
                   last_info_update, agent_start, restart_interval, persisted,
                   wd_extra, sleep_arg, exitStatus, hist, status_dict>>

\* signal.signal(signum, handler) followed by the statement at `next`
Install(at, sig, next) ==
    /\ pc = at
    /\ handlers' = handlers \cup {sig}
    /\ pc' = next
    /\ UNCHANGED <<now, run_forever, autorestart, bernard_config, config_path, f, checks,
                   schedule_count, next_due, wait_time, last_info_update,
                   agent_start, restart_interval, persisted, wd_extra,
                   sleep_arg, exitStatus, hist, status_dict>>

InstallSigterm == Install("install_sigterm", "SIGTERM", "install_sigusr1")
InstallSigusr1 == Install("install_sigusr1", "SIGUSR1", "install_sigint")
InstallSigint == Install("install_sigint", "SIGINT", "cfg_path")

\* What the configuration file may hold
FileContents == {"unparsable", "empty", "document"}

\* get_bernard_config is entered: config_path = get_config_path(...)
CfgPath ==
    /\ pc = "cfg_path"
    /\ config_path' \in {"None", "missing", "readable"}
    /\ hist' = [hist EXCEPT !.configured = TRUE]
    /\ pc' = "cfg_open"
    /\ UNCHANGED <<now, handlers, run_forever, autorestart, bernard_config, f,
                   checks, schedule_count, next_due, wait_time,
                   last_info_update, agent_start, restart_interval, persisted,
                   wd_extra, sleep_arg, exitStatus, status_dict>>

\* open(config_path): TypeError for None, IOError for a file that is not
\* there or cannot be read
OpenRaises == config_path \in {"None", "missing"}

\* try: f = open(config_path) / except (IOError, TypeError): return {}
CfgOpen ==
    /\ pc = "cfg_open"
    /\ IF OpenRaises
       THEN /\ bernard_config' = "empty"
            /\ config_path' = "unset"
            /\ pc' = "from_config"
            /\ UNCHANGED f
       ELSE /\ f' \in FileContents
            /\ pc' = "cfg_parse"
            /\ UNCHANGED <<bernard_config, config_path>>
    /\ UNCHANGED <<now, handlers, run_forever, autorestart, checks,
                   schedule_count, next_due, wait_time, last_info_update,
                   agent_start, restart_interval, persisted, wd_extra,
                   sleep_arg, exitStatus, hist, status_dict>>

\* variant: the assert on the loaded document is missing, None is returned
ParsedConfig_noAssert ==
    IF f = "document" THEN "loaded" ELSE IF f = "empty" THEN "None" ELSE "empty"

\* yaml.load(f.read()) and the assert: a parse error, or the None of an
\* empty document, is caught and {} returned
ParsedConfig == IF f = "document" THEN "loaded" ELSE "empty"

\* the second try block of get_bernard_config and its return
CfgParse ==
    /\ pc = "cfg_parse"
    /\ bernard_config' = ParsedConfig
    /\ config_path' = "unset"
    /\ f' = "unset"
    /\ pc' = "from_config"
    /\ UNCHANGED <<now, handlers, run_forever, autorestart, checks,
                   schedule_count, next_due, wait_time, last_info_update,
                   agent_start, restart_interval, persisted, wd_extra,
                   sleep_arg, exitStatus, hist, status_dict>>

\* self.scheduler = Scheduler.from_config(self.hostname, bernard_config)
FromConfig ==
    /\ pc = "from_config"
    /\ checks' = ChecksFromConfig(bernard_config)
    /\ schedule_count' = 0
    /\ next_due' = now
    /\ hist' = [hist EXCEPT !.built = TRUE]
    /\ pc' = "persist_startup"
    /\ UNCHANGED <<now, handlers, run_forever, autorestart, bernard_config, config_path, f,
                   wait_time, last_info_update, agent_start, restart_interval,
                   persisted, wd_extra, sleep_arg, exitStatus, status_dict>>

\* BernardStatus(checks=self.scheduler.checks).persist()
PersistStartup ==
    /\ pc = "persist_startup"
    /\ persisted' = BernardStatus(checks, 0)
    /\ hist' = [hist EXCEPT !.lastAction = "persist", !.startupPersisted = TRUE]
    /\ pc' = "set_startup_update"
    /\ UNCHANGED <<now, handlers, run_forever, autorestart, bernard_config, config_path, f,
                   checks, schedule_count, next_due, wait_time,
                   last_info_update, agent_start, restart_interval, wd_extra,
                   sleep_arg, exitStatus, status_dict>>

\* self.last_info_update = time.time()
SetStartupUpdate ==
    /\ pc = "set_startup_update"
    /\ last_info_update' = now
    /\ pc' = "init_restart"
    /\ UNCHANGED <<now, handlers, run_forever, autorestart, bernard_config, config_path, f,
                   checks, schedule_count, next_due, wait_time, agent_start,
                   restart_interval, persisted, wd_extra, sleep_arg,
                   exitStatus, hist, status_dict>>

\* variant: the flag is set again when the loop is about to be entered
InitRestart_resetsFlag ==
    /\ pc = "init_restart"
    /\ restart_interval' = Sec(RESTART_INTERVAL)
    /\ agent_start' = now
    /\ run_forever' = TRUE
    /\ pc' = "loop_test"
    /\ UNCHANGED <<now, handlers, autorestart, bernard_config, config_path, f,
                   checks, schedule_count, next_due, wait_time,
                   last_info_update, persisted, wd_extra, sleep_arg,
                   exitStatus, status_dict, hist>>

\* self.restart_interval = int(RESTART_INTERVAL); self.agent_start = time.time()
InitRestart ==
    /\ pc = "init_restart"
    /\ restart_interval' = Sec(RESTART_INTERVAL)
    /\ agent_start' = now
    /\ pc' = "loop_test"
    /\ UNCHANGED <<now, handlers, run_forever, autorestart, bernard_config, config_path, f,
                   checks, schedule_count, next_due, wait_time,
                   last_info_update, persisted, wd_extra, sleep_arg,
                   exitStatus, hist, status_dict>>

(* ------------------------------ main loop ------------------------------ *)

\* variant: "while True", the flag is not consulted
LoopTest_ignoresFlag ==
    /\ pc = "loop_test"
    /\ schedule_count < MaxSteps
    /\ pc' = "process"
    /\ UNCHANGED <<now, handlers, run_forever, autorestart, bernard_config, config_path, f,
                   checks, schedule_count, next_due, wait_time,
                   last_info_update, agent_start, restart_interval, persisted,
                   wd_extra, sleep_arg, exitStatus, hist, status_dict>>

\* while self.run_forever:
LoopTest ==
    /\ pc = "loop_test"
    /\ IF run_forever
       THEN schedule_count < MaxSteps /\ pc' = "process"
       ELSE pc' = "cleanup"
    /\ UNCHANGED <<now, handlers, run_forever, autorestart, bernard_config, config_path, f,
                   checks, schedule_count, next_due, wait_time,
                   last_info_update, agent_start, restart_interval, persisted,
                   wd_extra, sleep_arg, exitStatus, hist, status_dict>>

\* self.scheduler.process() is entered
ProcessStart ==
    /\ pc = "process"
    /\ pc' = "in_process"
    /\ hist' = [hist EXCEPT !.iterPersisted = FALSE, !.iterUpdated = FALSE]
    /\ wd_extra' = -1
    /\ sleep_arg' = -1
    /\ UNCHANGED <<now, handlers, run_forever, autorestart, bernard_config, config_path, f,
                   checks, schedule_count, next_due, wait_time,
                   last_info_update, agent_start, restart_interval, persisted,
                   exitStatus, status_dict>>

\* Scheduler.process: one check, if there is any, has run
RunCheck(cs, i, outcome) ==
    [cs EXCEPT ![i] = [@ EXCEPT !.status = outcome[1], !.state = outcome[2],
                                !.run_count = @ + 1]]

\* self.scheduler.process() returns
ProcessEnd ==
    /\ pc = "in_process"
    /\ schedule_count' = schedule_count + 1
    /\ IF checks = <<>>
       THEN UNCHANGED checks
       ELSE \E i \in DOMAIN checks, outcome \in CheckOutcomes :
              checks' = RunCheck(checks, i, outcome)
    /\ \E w \in WaitDurations : next_due' = now + w
    /\ hist' = [hist EXCEPT !.lastAction = "process",
                            !.stepsAfterStop = IF run_forever THEN @ ELSE @ + 1]
    /\ pc' = "wait_time"
    /\ UNCHANGED <<now, handlers, run_forever, autorestart, bernard_config, config_path, f,
                   wait_time, last_info_update, agent_start, restart_interval,
                   persisted, wd_extra, sleep_arg, exitStatus, status_dict>>

\* wait_time = self.scheduler.wait_time()
QueryWaitTime ==
    /\ pc = "wait_time"
    /\ wait_time' = SchedulerWaitTime
    /\ pc' = "restart_check"
    /\ UNCHANGED <<now, handlers, run_forever, autorestart, bernard_config, config_path, f,
                   checks, schedule_count, next_due, last_info_update,
                   agent_start, restart_interval, persisted, wd_extra,
                   sleep_arg, exitStatus, hist, status_dict>>

\* Bernard._should_restart
should_restart == now - agent_start > restart_interval

\* variant: the autorestart setting is not consulted
RestartDue_ignoresAutorestart == now - agent_start > restart_interval

\* the condition of "if self.autorestart and self._should_restart()"
RestartDue == autorestart /\ should_restart

\* if self.autorestart and self._should_restart(): self._do_restart()
RestartCheck ==
    /\ pc = "restart_check"
    /\ IF RestartDue
       THEN /\ pc' = "done"
            /\ exitStatus' = DoRestartOutcome
            /\ hist' = [hist EXCEPT !.restartBy = "age"]
       ELSE /\ pc' = "status_check"
            /\ UNCHANGED <<exitStatus, hist>>
    /\ UNCHANGED <<now, handlers, run_forever, autorestart, bernard_config, config_path, f,
                   checks, schedule_count, next_due, wait_time,
                   last_info_update, agent_start, restart_interval, persisted,
                   wd_extra, sleep_arg, status_dict>>

\* variant: non-strict comparisons
ShouldUpdateStatus_nonStrict ==
    \/ now >= last_info_update + Sec(STATUS_PERIOD)
    \/ wait_time >= Sec(STATUS_PERIOD)

\* variant: the long-sleep clause is missing
ShouldUpdateStatus_elapsedOnly == now > last_info_update + Sec(STATUS_PERIOD)

\* time.time() > self.last_info_update + 10 or wait_time > 10
ShouldUpdateStatus ==
    \/ now > last_info_update + Sec(STATUS_PERIOD)
    \/ wait_time > Sec(STATUS_PERIOD)

\* if time.time() > self.last_info_update + 10 or wait_time > 10:
StatusCheck ==
    /\ pc = "status_check"
    /\ pc' = IF ShouldUpdateStatus THEN "persist" ELSE "plan"
    /\ UNCHANGED <<now, handlers, run_forever, autorestart, bernard_config, config_path, f,
                   checks, schedule_count, next_due, wait_time,
                   last_info_update, agent_start, restart_interval, persisted,
                   wd_extra, sleep_arg, exitStatus, hist, status_dict>>

\* variant: schedule_count is left at its default
LoopStatus_defaultCount == BernardStatus(checks, 0)

\* the snapshot the loop builds
LoopStatus == BernardStatus(checks, schedule_count)

\* variant: building the snapshot runs every check instead of reading it
PersistStatus_runsChecks ==
    /\ pc = "persist"
    /\ checks' = [i \in DOMAIN checks |->
                    [checks[i] EXCEPT !.run_count = @ + 1]]
    /\ persisted' = BernardStatus(checks', schedule_count)
    /\ hist' = [hist EXCEPT !.lastAction = "persist", !.iterPersisted = TRUE]
    /\ pc' = "set_update"
    /\ UNCHANGED <<now, handlers, run_forever, autorestart, bernard_config,
                   config_path, f, schedule_count, next_due, wait_time,
                   last_info_update, agent_start, restart_interval, wd_extra,
                   sleep_arg, exitStatus, status_dict>>

\* BernardStatus(checks=..., schedule_count=...).persist()
PersistStatus ==
    /\ pc = "persist"
    /\ persisted' = LoopStatus
    /\ hist' = [hist EXCEPT !.lastAction = "persist", !.iterPersisted = TRUE]
    /\ pc' = "set_update"
    /\ UNCHANGED <<now, handlers, run_forever, autorestart, bernard_config, config_path, f,
                   checks, schedule_count, next_due, wait_time,
                   last_info_update, agent_start, restart_interval, wd_extra,
                   sleep_arg, exitStatus, status_dict>>

\* variant: the wrong timestamp is stored
SetUpdate_usesStart ==
    /\ pc = "set_update"
    /\ last_info_update' = agent_start
    /\ hist' = [hist EXCEPT !.iterUpdated = TRUE]
    /\ pc' = "plan"
    /\ UNCHANGED <<now, handlers, run_forever, autorestart, bernard_config,
                   config_path, f, checks, schedule_count, next_due, wait_time,
                   agent_start, restart_interval, persisted, wd_extra,
                   sleep_arg, exitStatus, status_dict>>

\* self.last_info_update = time.time()
SetUpdate ==
    /\ pc = "set_update"
    /\ last_info_update' = now
    /\ hist' = [hist EXCEPT !.iterUpdated = TRUE]
    /\ pc' = "plan"
    /\ UNCHANGED <<now, handlers, run_forever, autorestart, bernard_config, config_path, f,
                   checks, schedule_count, next_due, wait_time, agent_start,
                   restart_interval, persisted, wd_extra, sleep_arg,
                   exitStatus, status_dict>>

\* variant: the watchdog reset and the sleep are not guarded by the flag
Plan_ignoresFlag ==
    /\ pc = "plan"
    /\ pc' = "wd_reset"
    /\ UNCHANGED <<now, handlers, run_forever, autorestart, bernard_config,
                   config_path, f, checks, schedule_count, next_due, wait_time,
                   last_info_update, agent_start, restart_interval, persisted,
                   wd_extra, sleep_arg, exitStatus, status_dict, hist>>

\* if self.run_forever:
Plan ==
    /\ pc = "plan"
    /\ pc' = IF run_forever THEN "wd_reset" ELSE "loop_test"
    /\ UNCHANGED <<now, handlers, run_forever, autorestart, bernard_config, config_path, f,
                   checks, schedule_count, next_due, wait_time,
                   last_info_update, agent_start, restart_interval, persisted,
                   wd_extra, sleep_arg, exitStatus, hist, status_dict>>

\* the argument of StaticWatchdog.reset
ResetArg == IntOf(wait_time)

\* StaticWatchdog.reset(int(wait_time))
WdReset ==
    /\ pc = "wd_reset"
    /\ wd_extra' = ResetArg
    /\ hist' = [hist EXCEPT !.lastAction = "reset"]
    /\ pc' = "sleep"
    /\ UNCHANGED <<now, handlers, run_forever, autorestart, bernard_config, config_path, f,
                   checks, schedule_count, next_due, wait_time,
                   last_info_update, agent_start, restart_interval, persisted,
                   sleep_arg, exitStatus, status_dict>>

\* time.sleep(self.scheduler.wait_time()); the suspension itself is the
\* clock advancing, and a caught signal may cut it short
Sleep ==
    /\ pc = "sleep"
    /\ sleep_arg' = SchedulerWaitTime
    /\ hist' = [hist EXCEPT !.lastAction = "sleep"]
    /\ pc' = "loop_test"
    /\ UNCHANGED <<now, handlers, run_forever, autorestart, bernard_config, config_path, f,
                   checks, schedule_count, next_due, wait_time,
                   last_info_update, agent_start, restart_interval, persisted,
                   wd_extra, exitStatus, status_dict>>

\* variant: the snapshot is left in place
Cleanup_keepsStatus ==
    /\ pc = "cleanup"
    /\ pc' = "exit"
    /\ UNCHANGED <<now, handlers, run_forever, autorestart, bernard_config, config_path, f,
                   checks, schedule_count, next_due, wait_time,
                   last_info_update, agent_start, restart_interval, persisted,
                   wd_extra, sleep_arg, exitStatus, hist, status_dict>>

\* BernardStatus.remove_latest_status()
Cleanup ==
    /\ pc = "cleanup"
    /\ persisted' = NoStatus
    /\ hist' = [hist EXCEPT !.lastAction = "remove_latest_status",
                            !.removed = TRUE]
    /\ pc' = "exit"
    /\ UNCHANGED <<now, handlers, run_forever, autorestart, bernard_config, config_path, f,
                   checks, schedule_count, next_due, wait_time,
                   last_info_update, agent_start, restart_interval, wd_extra,
                   sleep_arg, exitStatus, status_dict>>

\* sys.exit(0)
Exit ==
    /\ pc = "exit"
    /\ exitStatus' = "0"
    /\ pc' = "done"
    /\ UNCHANGED <<now, handlers, run_forever, autorestart, bernard_config, config_path, f,
                   checks, schedule_count, next_due, wait_time,
                   last_info_update, agent_start, restart_interval, persisted,
                   wd_extra, sleep_arg, hist, status_dict>>

(* -------------------------------- clock -------------------------------- *)

\* time passes; the clock does not go backwards
Tick ==
    /\ pc # "done"
    /\ \E t \in ClockValues : t > now /\ now' = t
    /\ UNCHANGED <<pc, handlers, run_forever, autorestart, bernard_config, config_path, f,
                   checks, schedule_count, next_due, wait_time,
                   last_info_update, agent_start, restart_interval, persisted,
                   wd_extra, sleep_arg, exitStatus, hist, status_dict>>

(* ---------------------------- specification ---------------------------- *)

\* the statements of Bernard.run, executed by the main thread
Run ==
    \/ InstallSigterm \/ InstallSigusr1 \/ InstallSigint
    \/ CfgPath \/ CfgOpen \/ CfgParse \/ FromConfig
    \/ PersistStartup \/ SetStartupUpdate \/ InitRestart
    \/ LoopTest \/ ProcessStart \/ ProcessEnd \/ QueryWaitTime
    \/ RestartCheck \/ StatusCheck \/ PersistStatus \/ SetUpdate
    \/ Plan \/ WdReset \/ Sleep \/ Cleanup \/ Exit

\* asynchronous signal delivery
Signal ==
    \/ \E sig \in {"SIGTERM", "SIGINT"} : HandleSigterm(sig)
    \/ HandleSigusr1

Next == Run \/ Signal \/ Tick

Spec == Init /\ [][Next]_vars

\* the main thread keeps executing: every statement of run() returns
FairSpec == Spec /\ WF_vars(Run)

(* ------------------- the snapshot's structured form -------------------- *)

\* checks a snapshot is built from, in the specification of the snapshot
MaxChecks == 2

\* AgentStatus.to_dict: the base fields
AgentStatus_to_dict(st) == [name |-> "Bernard", created_at |-> now]

\* dict.update: the keys of upd replace or extend those of base
DictUpdate(base, upd) ==
    [k \in DOMAIN base \cup DOMAIN upd |->
        IF k \in DOMAIN upd THEN upd[k] ELSE base[k]]

\* variant: the schedule count is taken from the number of checks
to_dict_countsChecks(st) ==
    DictUpdate(AgentStatus_to_dict(st),
               [checks |-> st.check_stats,
                schedule_count |-> Len(st.check_stats)])

\* BernardStatus.to_dict
to_dict(st) ==
    DictUpdate(AgentStatus_to_dict(st),
               [checks |-> st.check_stats,
                schedule_count |-> st.schedule_count])

\* BernardStatus.has_error
has_error(st) == FALSE

\* the checks a scheduler may hold when a snapshot is taken
SnapCheckValues ==
    {[check_name |-> n, status |-> o[1], state |-> o[2], run_count |-> r] :
        n \in {"A", "B"}, o \in CheckOutcomes, r \in 0..MaxSteps}

SnapInit ==
    /\ pc = "snap_build"
    /\ now = 0
    /\ handlers = {}
    /\ run_forever = TRUE
    /\ autorestart = FALSE
    /\ bernard_config = "unset"
    /\ config_path = "unset"
    /\ f = "unset"
    /\ checks \in UNION {[1..n -> SnapCheckValues] : n \in 0..MaxChecks}
    /\ schedule_count \in 0..MaxSteps
    /\ next_due = 0
    /\ wait_time = 0
    /\ last_info_update = -1
    /\ agent_start = -1
    /\ restart_interval = -1
    /\ persisted = NoStatus
    /\ wd_extra = 0
    /\ sleep_arg = -1
    /\ exitStatus = "none"
    /\ status_dict = <<>>
    /\ hist = [term |-> FALSE, usr1 |-> FALSE, lastAction |-> "none",
               restartBy |-> "none", removed |-> FALSE,
               startupPersisted |-> FALSE,
               configured |-> FALSE, built |-> FALSE,
               stepsAfterStop |-> 0, iterPersisted |-> FALSE,
               iterUpdated |-> FALSE]

\* BernardStatus(checks=checks, schedule_count=c).persist()
SnapBuild ==
    /\ pc = "snap_build"
    /\ persisted' = BernardStatus(checks, schedule_count)
    /\ pc' = "snap_dict"
    /\ UNCHANGED <<now, handlers, run_forever, autorestart, bernard_config,
                   config_path, f, checks, schedule_count, next_due, wait_time,
                   last_info_update, agent_start, restart_interval, wd_extra,
                   sleep_arg, exitStatus, status_dict, hist>>

\* the snapshot's to_dict()
SnapToDict ==
    /\ pc = "snap_dict"
    /\ status_dict' = to_dict(persisted)
    /\ pc' = "snap_done"
    /\ UNCHANGED <<now, handlers, run_forever, autorestart, bernard_config,
                   config_path, f, checks, schedule_count, next_due, wait_time,
                   last_info_update, agent_start, restart_interval, persisted,
                   wd_extra, sleep_arg, exitStatus, hist>>

SnapNext == SnapBuild \/ SnapToDict

SnapSpec == SnapInit /\ [][SnapNext]_vars

(* ------------------------------ properties ----------------------------- *)

NoSignal == ~hist.term /\ ~hist.usr1

\* C1 (as stated): whenever SIGTERM or SIGINT was delivered and SIGUSR1 was
\* not, for every autorestart setting and process age, the process ends with
\* exit code 0 and its last action is remove_latest_status.
C1_GracefulStopAlwaysExitsZero ==
    (pc = "done" /\ hist.term /\ ~hist.usr1)
        => (exitStatus = "0" /\ hist.lastAction = "remove_latest_status")

\* C1 (amended): once SIGTERM or SIGINT has been delivered the process
\* terminates, and unless SIGUSR1 was delivered or the age-based restart
\* fired in the iteration in progress, it terminates with exit code 0 and
\* remove_latest_status is its last action.
C1_GracefulStop ==
    hist.term ~>
        (/\ pc = "done"
         /\ \/ hist.usr1
            \/ hist.restartBy = "age"
            \/ exitStatus = "0" /\ hist.lastAction = "remove_latest_status")

C1_Witness ==
    /\ pc = "done" /\ hist.term /\ ~hist.usr1 /\ autorestart
    /\ exitStatus = "0" /\ hist.lastAction = "remove_latest_status"
    /\ schedule_count >= 1

\* C2: once SIGUSR1 has been delivered, in whatever state of the controller,
\* the process has exited with the restart exit status and
\* remove_latest_status has not been performed.
C2_RestartSignalExitsWithRestartStatus ==
    hist.usr1 => (pc = "done" /\ exitStatus = "restart" /\ ~hist.removed)

\* C3: at most one scheduler step completes after the flag run_forever has
\* become false, and a step that is about to start or in flight with the
\* flag false is the only such step.
C3_AtMostOneStepAfterStop ==
    /\ hist.stepsAfterStop <= 1
    /\ (pc \in {"process", "in_process"} /\ ~run_forever)
           => hist.stepsAfterStop = 0

C3_Witness ==
    /\ pc = "done" /\ exitStatus = "0" /\ hist.term
    /\ hist.stepsAfterStop = 1

\* C4: the status step persists a snapshot and updates last_info_update if
\* and only if now > last_info_update + 10 or wait_time > 10, both strictly;
\* otherwise it leaves both alone.
C4_StatusThrottle ==
    /\ [][(pc = "status_check" /\ pc' \in {"persist", "plan"}) =>
            ((pc' = "persist") <=>
                (\/ now > last_info_update + 10 * TicksPerSec
                 \/ wait_time > 10 * TicksPerSec))]_vars
    /\ [][(pc = "persist" /\ pc' = "set_update") =>
            (persisted'.present /\ hist'.iterPersisted)]_vars
    /\ [][(pc = "set_update" /\ pc' = "plan") => last_info_update' = now]_vars
    /\ [](pc \in {"plan", "wd_reset", "sleep"} =>
            (hist.iterPersisted <=> hist.iterUpdated))
    /\ [][(~hist.iterPersisted /\ ~hist'.iterPersisted
           /\ pc \in {"status_check", "plan"}) =>
            (persisted' = persisted /\ last_info_update' = last_info_update)]_vars

\* exactly 10 s elapsed and wait_time = 10: nothing was persisted
C4_Witness ==
    /\ pc = "plan" /\ ~hist.iterPersisted
    /\ wait_time = 10 * TicksPerSec
    /\ now = last_info_update + 10 * TicksPerSec

\* C5: in every iteration that sleeps, the argument of StaticWatchdog.reset
\* is at least the argument of time.sleep.
C5_WatchdogCoversSleep ==
    sleep_arg >= 0 => wd_extra >= sleep_arg

\* C6: in every iteration that sleeps for more than 10 s, a snapshot of the
\* scheduler's state of that iteration was persisted before the sleep.
C6_FreshStatusBeforeLongSleep ==
    (pc \in {"loop_test", "process", "cleanup"} /\ sleep_arg > 10 * TicksPerSec)
        => /\ hist.iterPersisted
           /\ persisted.present
           /\ persisted.schedule_count = schedule_count
           /\ Len(persisted.check_stats) = Len(checks)
           /\ \A i \in DOMAIN checks :
                /\ persisted.check_stats[i].run_count = checks[i].run_count
                /\ persisted.check_stats[i].status = checks[i].status

\* a long sleep less than 10 s after the previous status update
C6_Witness ==
    /\ pc = "loop_test" /\ sleep_arg > 10 * TicksPerSec
    /\ hist.iterPersisted /\ schedule_count = 2
    /\ now = last_info_update

\* C7: with autorestart enabled and no signal delivered, the restart check
\* exits with the restart exit status in the iteration in which
\* now - agent_start > restart_interval first holds, and only then.
C7_AgeRestart ==
    [][(pc = "restart_check" /\ pc' # pc /\ autorestart
        /\ ~hist'.term /\ ~hist'.usr1) =>
         IF now - agent_start > 4 * 24 * 60 * 60 * TicksPerSec
         THEN pc' = "done" /\ exitStatus' = "restart"
         ELSE pc' = "status_check" /\ exitStatus' = "none"]_vars

\* C8: with autorestart disabled the age check never triggers the restart
\* transition: the process leaves run() other than by exit code 0 only if
\* SIGUSR1 was delivered.
C8_NoAgeRestartWhenDisabled ==
    ~autorestart =>
        /\ hist.restartBy # "age"
        /\ exitStatus = "restart" => hist.usr1
        /\ (pc = "done" /\ exitStatus # "0") => hist.usr1

\* an iteration went past its restart check although the age exceeded the
\* interval before that iteration began
C8_Witness ==
    /\ ~autorestart /\ NoSignal
    /\ pc = "status_check"
    /\ agent_start >= 0
    /\ last_info_update - agent_start > restart_interval

\* C9: with no signal delivered, every persisted snapshot carries the
\* scheduler's schedule counter of that moment (0 for the start-up snapshot)
\* and the counts of successive snapshots never decrease.
C9_SnapshotCount ==
    [][(/\ ~hist'.term /\ ~hist'.usr1
        /\ \/ pc = "persist_startup" /\ pc' = "set_startup_update"
           \/ pc = "persist" /\ pc' = "set_update") =>
         /\ persisted'.present
         /\ persisted'.schedule_count = schedule_count
         /\ pc = "persist_startup" => persisted'.schedule_count = 0
         /\ persisted.present =>
                persisted'.schedule_count >= persisted.schedule_count]_vars

C9_Witness ==
    /\ NoSignal /\ pc = "set_update"
    /\ persisted.present /\ persisted.schedule_count = 2

\* C10: the three handlers are installed before the configuration is loaded
\* and the scheduler built, and the start-up snapshot (schedule count 0, one
\* entry per check of the scheduler) is persisted before the first scheduler
\* step.
C10_StartupOrder ==
    /\ (\/ hist.configured \/ hist.built \/ hist.startupPersisted
        \/ pc \notin {"install_sigterm", "install_sigusr1", "install_sigint",
                      "done"})
           => handlers = {"SIGTERM", "SIGUSR1", "SIGINT"}
    /\ (pc = "in_process" \/ schedule_count > 0)
           => (hist.built /\ hist.startupPersisted)
    /\ hist.startupPersisted => hist.built
    /\ hist.built => hist.configured
    /\ pc = "set_startup_update" =>
           /\ persisted.present
           /\ persisted.schedule_count = 0
           /\ Len(persisted.check_stats) = Len(checks)
           /\ \A i \in DOMAIN checks :
                persisted.check_stats[i].check_name = checks[i].check_name

C10_Witness ==
    /\ pc = "in_process" /\ schedule_count = 0
    /\ handlers = {"SIGTERM", "SIGUSR1", "SIGINT"}
    /\ persisted.present /\ persisted.schedule_count = 0
    /\ Len(persisted.check_stats) = 1

\* C11: whatever goes wrong in locating, opening or parsing the
\* configuration file (no path, file missing or unreadable, content
\* unparsable or empty), get_bernard_config returns {} without raising, and
\* run() goes on to build the scheduler and reach the main loop.
C11_ConfigFailureNonFatal ==
    /\ [][(/\ pc = "cfg_open" /\ pc' # pc /\ ~hist'.usr1
           /\ config_path \in {"None", "missing"}) =>
            (/\ pc' = "from_config" /\ bernard_config' = "empty"
             /\ exitStatus' = "none")]_vars
    /\ [][(/\ pc = "cfg_parse" /\ pc' # pc /\ ~hist'.usr1
           /\ f \in {"unparsable", "empty"}) =>
            (/\ pc' = "from_config" /\ bernard_config' = "empty"
             /\ exitStatus' = "none")]_vars
    /\ (pc = "from_config" /\ bernard_config = "empty")
           ~> ((pc = "loop_test" /\ hist.built) \/ hist.usr1)

\* the loop is running on the empty configuration
C11_Witness ==
    /\ pc = "in_process" /\ bernard_config = "empty" /\ NoSignal
    /\ hist.built /\ checks = <<>>

\* C12: last_info_update never decreases, and it changes only in the
\* statement that follows a snapshot persistence.
C12_LastUpdateMonotone ==
    /\ [][last_info_update' >= last_info_update]_vars
    /\ [][last_info_update' # last_info_update =>
            (/\ pc \in {"set_startup_update", "set_update"}
             /\ hist.lastAction = "persist"
             /\ persisted.present
             /\ last_info_update' = now)]_vars

\* the loop has moved last_info_update past its start-up value
C12_Witness ==
    /\ pc = "plan" /\ hist.iterUpdated
    /\ agent_start >= 0 /\ last_info_update > agent_start

\* C13: building and persisting a snapshot leaves the scheduler's counter,
\* its checks and their status, state and run count as they were, and runs
\* no check.
C13_PersistReadsOnly ==
    [][(\/ pc = "persist_startup" /\ pc' = "set_startup_update"
        \/ pc = "persist" /\ pc' = "set_update") =>
         /\ schedule_count' = schedule_count
         /\ next_due' = next_due
         /\ Len(checks') = Len(checks)
         /\ \A i \in DOMAIN checks :
              /\ checks'[i].check_name = checks[i].check_name
              /\ checks'[i].status = checks[i].status
              /\ checks'[i].state = checks[i].state
              /\ checks'[i].run_count = checks[i].run_count]_vars

\* a snapshot of a check that has run was persisted in the loop
C13_Witness ==
    /\ pc = "set_update" /\ Len(checks) = 1
    /\ checks[1].run_count = 1
    /\ persisted.present /\ persisted.check_stats[1].run_count = 1

\* C14: the structured form of BernardStatus(checks, c) holds one entry per
\* check, in the order of the checks, and the schedule count c; has_error
\* is false.
C14_SnapshotRoundTrip ==
    pc = "snap_done" =>
        /\ Len(status_dict.checks) = Len(checks)
        /\ \A i \in DOMAIN checks :
             /\ status_dict.checks[i].check_name = checks[i].check_name
             /\ status_dict.checks[i].status = checks[i].status
             /\ status_dict.checks[i].state = checks[i].state
             /\ status_dict.checks[i].run_count = checks[i].run_count
        /\ status_dict.schedule_count = schedule_count
        /\ has_error(persisted) = FALSE

\* two different checks and a schedule count that differs from their number
C14_Witness ==
    /\ pc = "snap_done" /\ Len(checks) = 2
    /\ checks[1].check_name = "B" /\ checks[2].check_name = "A"
    /\ Len(status_dict.checks) = 2
    /\ status_dict.checks[1].check_name = "B"
    /\ status_dict.schedule_count = 1

\* C15: the handler of SIGTERM and SIGINT sets run_forever to false and
\* changes nothing else; the persisted snapshot is removed only by the
\* clean-up that follows the loop, never within an iteration.
C15_HandlerOnlyFlipsFlag ==
    /\ [][(hist'.term /\ ~hist.term) =>
            /\ ~run_forever'
            /\ UNCHANGED <<pc, now, handlers, autorestart, bernard_config,
                           checks, schedule_count, next_due, wait_time,
                           last_info_update, agent_start, restart_interval,
                           persisted, wd_extra, sleep_arg, exitStatus>>]_vars
    /\ [][(persisted.present /\ ~persisted'.present) =>
            (pc = "cleanup" /\ pc' = "exit" /\ ~run_forever)]_vars
    /\ [](hist.removed => pc \in {"exit", "done"})

\* the signal arrived during a scheduler step and the snapshot is still there
C15_Witness ==
    /\ pc = "in_process" /\ hist.term /\ ~hist.usr1 /\ ~run_forever
    /\ persisted.present /\ exitStatus = "none"

\* C16 (as stated): while run_forever is false the controller takes neither
\* the watchdog reset nor the sleep, whenever the signal arrived.
C16_NoResetNoSleepOnceStopped ==
    [][~run_forever =>
         /\ ~(pc = "wd_reset" /\ pc' = "sleep")
         /\ ~(pc = "sleep" /\ pc' = "loop_test")]_vars

\* C16 (amended): in an iteration the watchdog reset and the sleep happen
\* together, reset first, or not at all; they are entered only when the test
\* before them reads run_forever true, and are skipped when it reads false.
C16_ResetAndSleepGuarded ==
    /\ [][(pc' = "wd_reset" /\ pc # "wd_reset") =>
            (pc = "plan" /\ run_forever)]_vars
    /\ [][(pc = "plan" /\ pc' \notin {"plan", "done"} /\ ~run_forever) =>
            (/\ pc' = "loop_test"
             /\ wd_extra' = wd_extra /\ sleep_arg' = sleep_arg)]_vars
    /\ [][(pc' = "sleep" /\ pc # "sleep") =>
            (pc = "wd_reset" /\ wd_extra' >= 0 /\ sleep_arg' = -1)]_vars
    /\ [](sleep_arg >= 0 => wd_extra >= 0)
    /\ []((pc = "loop_test" /\ schedule_count >= 1) =>
            (wd_extra >= 0 <=> sleep_arg >= 0))

\* the signal arrived before the test: the iteration ended without reset and
\* without sleep
C16_Witness ==
    /\ pc = "loop_test" /\ schedule_count >= 1
    /\ hist.term /\ ~hist.usr1 /\ ~run_forever
    /\ wd_extra = -1 /\ sleep_arg = -1

\* C17: once the restart transition has fired, by age or by signal, the
\* process has ended with the restart exit status and nothing follows.
C17_RestartDoesNotReturn ==
    hist.restartBy # "none" => (pc = "done" /\ exitStatus = "restart")

\* C18: run_forever is true until a signal handler runs, only a handler
\* changes it, and it never returns from false to true.
C18_FlagOnlyFalls ==
    /\ [][run_forever' # run_forever =>
            (/\ run_forever /\ ~run_forever'
             /\ NoSignal /\ (hist'.term \/ hist'.usr1))]_vars
    /\ [](run_forever <=> NoSignal)

\* the flag stays false while the loop finishes its iteration
C18_Witness ==
    /\ pc = "sleep" /\ ~run_forever /\ hist.term /\ ~hist.usr1

\* C19: the process ends only with exit code 0 or with the restart exit
\* status; when it ends with 0, run_forever is false and the persisted
\* snapshot was removed and not written again.
C19_ExitStatus ==
    pc = "done" =>
        /\ exitStatus \in {"0", "restart"}
        /\ exitStatus = "0" =>
             (~run_forever /\ hist.removed /\ ~persisted.present)

\* C20: with no signal delivered and autorestart disabled the loop does not
\* exit: the snapshot is not removed, the process does not end, and the
\* scheduler is stepped again and again.
C20_NoSpontaneousExit ==
    /\ []((NoSignal /\ ~autorestart) =>
            (/\ pc \notin {"cleanup", "exit", "done"}
             /\ ~hist.removed /\ exitStatus = "none"))
    /\ \A k \in 0..(MaxSteps - 1) :
         (~autorestart /\ schedule_count = k)
             ~> (schedule_count > k \/ ~NoSignal)

\* the loop is still running past the restart interval
C20_Witness ==
    /\ NoSignal /\ ~autorestart
    /\ pc = "loop_test" /\ schedule_count = MaxSteps
    /\ agent_start >= 0 /\ now - agent_start > restart_interval

====
